---- MODULE Spec2Model ----
(***************************************************************************)
(* The CHIP-8 machine core of chip/src/lib.rs (ChipState) as a state       *)
(* machine: new, load, tick (fetch + eval), press_key, release_key.        *)
(*                                                                         *)
(* Representation:                                                         *)
(*   - a bit mask (keys: u16, a framebuffer row: u64, rng_seed: u64) is    *)
(*     the set of its set bit positions, bit 0 being the least significant *)
(*     bit; shifts, OR, AND and XOR are computed on these sets;            *)
(*   - mem, the 4096-byte array, is the function from the addresses that   *)
(*     hold a non-zero byte to that byte (MemRead gives 0 elsewhere);      *)
(*   - u8 / u16 values are integers, reduced modulo 2^8 / 2^16 where the   *)
(*     code wraps.                                                         *)
(* Rust integer overflow depends on the build profile: with overflow       *)
(* checks (debug) it panics, without them (release) it wraps.  The profile *)
(* is the variable overflow_checks, chosen in Init and never changed.      *)
(* An out-of-range index panics in every profile.                          *)
(***************************************************************************)
EXTENDS Integers, Sequences, FiniteSets, TLC

VARIABLES
    mem,              \* ChipState.mem
    reg,              \* ChipState.reg
    i,                \* ChipState.i
    pc,               \* ChipState.pc
    stack,            \* ChipState.stack
    fbuf,             \* ChipState.fbuf
    keys,             \* ChipState.keys
    d_tim,            \* ChipState.d_tim
    s_tim,            \* ChipState.s_tim
    rng_seed,         \* ChipState.rng_seed
    overflow_checks,  \* build profile: TRUE = overflow panics, FALSE = wraps
    phase,            \* caller's position: "created", "running", "crashed"
    instr,            \* the word fetched by the last tick (-1: none yet)
    result            \* what the last tick returned (kind "None": none yet)

machine == <<mem, reg, i, pc, stack, fbuf, keys, d_tim, s_tim, rng_seed>>

vars == <<mem, reg, i, pc, stack, fbuf, keys, d_tim, s_tim, rng_seed,
          overflow_checks, phase, instr, result>>

----------------------------------------------------------------------------
(* Bounds of the model.                                                    *)

\* longest ROM handed to load, in 16-bit words
MaxRomLen == 3
\* press_key / release_key are called with keys 0..MaxKey
MaxKey == 1
\* 2NNN is not explored beyond this call depth (the Vec itself is unbounded)
MaxStack == 3

----------------------------------------------------------------------------
(* Program constants.                                                      *)

MemSize == 4096
RomStart == 512
NumRegs == 16
FbufRows == 32
FbufCols == 64
VF == 15

U8 == 256
U16 == 65536

HEX_SPRITES ==
    << <<240, 144, 144, 144, 240>>,
       <<32, 96, 32, 32, 112>>,
       <<240, 16, 240, 128, 240>>,
       <<240, 16, 240, 16, 240>>,
       <<144, 144, 240, 16, 16>>,
       <<240, 128, 240, 16, 240>>,
       <<240, 128, 240, 144, 240>>,
       <<240, 16, 32, 64, 64>>,
       <<240, 144, 240, 144, 240>>,
       <<240, 144, 240, 16, 240>>,
       <<240, 144, 240, 144, 144>>,
       <<224, 144, 224, 144, 224>>,
       <<240, 128, 128, 128, 240>>,
       <<224, 144, 144, 144, 224>>,
       <<240, 128, 240, 128, 240>>,
       <<240, 128, 240, 128, 128>> >>

----------------------------------------------------------------------------
(* Bit masks as sets of bit positions.                                     *)

Pow2(n) == 2 ^ n

\* the set bits of a value below 2^16
Bits(n) == {b \in 0..15 : (n \div Pow2(b)) % 2 = 1}

RECURSIVE FromBits(_)
\* the value of a mask whose bits are all below 2^16
FromBits(S) ==
    IF S = {} THEN 0
    ELSE LET b == CHOOSE x \in S : TRUE IN Pow2(b) + FromBits(S \ {b})

\* a << k on a w-bit word: bits shifted past the top are lost
Shl(S, k, w) == {b + k : b \in {c \in S : c + k < w}}
\* a >> k
Shr(S, k) == {b - k : b \in {c \in S : c >= k}}
Xor(A, B) == (A \ B) \cup (B \ A)

\* byte-wide |, &, ^ of the 8XY1 / 8XY2 / 8XY3 / CXKK branches
BitOr(a, b) == FromBits(Bits(a) \cup Bits(b))
BitAnd(a, b) == FromBits(Bits(a) \cap Bits(b))
BitXor(a, b) == FromBits(Xor(Bits(a), Bits(b)))

----------------------------------------------------------------------------
(* Memory.                                                                 *)

MemRead(m, a) == IF a \in DOMAIN m THEN m[a] ELSE 0

MemWrite(m, a, v) ==
    IF v = 0 THEN [b \in DOMAIN m \ {a} |-> m[b]]
    ELSE [b \in DOMAIN m \cup {a} |-> IF b = a THEN v ELSE m[b]]

\* mem after ChipState::new: the 16 glyphs at 5*d .. 5*d+4, zero elsewhere
SpriteMem ==
    [a \in 0..(5 * NumRegs - 1) |-> HEX_SPRITES[(a \div 5) + 1][(a % 5) + 1]]

\* the ROM copied one byte too high
RECURSIVE CopyRom_OffByOne(_, _, _)
CopyRom_OffByOne(m, rom, j) ==
    IF j > Len(rom) THEN m
    ELSE CopyRom_OffByOne(MemWrite(m, RomStart + j, rom[j]), rom, j + 1)

\* the slice copy of ChipState::load
RECURSIVE CopyRom(_, _, _)
CopyRom(m, rom, j) ==
    IF j > Len(rom) THEN m
    ELSE CopyRom(MemWrite(m, RomStart + j - 1, rom[j]), rom, j + 1)

\* a ROM given as 16-bit words, as the bytes load receives (big-endian)
WordsToBytes(ws) ==
    [j \in 1..(2 * Len(ws)) |->
        IF j % 2 = 1 THEN ws[(j + 1) \div 2] \div 256 ELSE ws[j \div 2] % 256]

\* ChipState as one record, the argument and result of the eval branches
Machine ==
    [mem |-> mem, reg |-> reg, i |-> i, pc |-> pc, stack |-> stack,
     fbuf |-> fbuf, keys |-> keys, d_tim |-> d_tim, s_tim |-> s_tim,
     rng_seed |-> rng_seed]

\* the big-endian instruction word tick reads at pc (pc, pc + 1 in range)
Fetch(m, p) == MemRead(m, p) * 256 + MemRead(m, p + 1)

----------------------------------------------------------------------------
(* Instruction fields, as eval extracts them from upper / lower.           *)

TopNibble(w) == w \div 4096           \* (upper & 0xF0) >> 4
FieldX(w) == (w \div 256) % 16        \* upper & 0x0F
FieldY(w) == (w \div 16) % 16         \* (lower & 0xF0) >> 4
FieldN(w) == w % 16                   \* lower & 0x0F
FieldKK(w) == w % 256                 \* lower
FieldNNN(w) == w % 4096               \* instr & 0x0FFF

(* What a call of tick ends with, together with the machine it leaves.     *)
(* A panic ends the process: the machine is not observable afterwards and  *)
(* is left as it was at the start of the tick.                             *)
Ok(s) == [kind |-> "Ok", op |-> -1, s |-> s]
UndefinedOp(s, w) == [kind |-> "UndefinedOp", op |-> w, s |-> s]
PoppedEmptyStack(s) == [kind |-> "PoppedEmptyStack", op |-> -1, s |-> s]
Panic(s) == [kind |-> "Panic", op |-> -1, s |-> s]

\* self.pc += k.  pc <= 4094 whenever eval runs (the fetch at pc + 1 was in
\* range), so the u16 sum never overflows.
AdvancePc(s, k) == [s EXCEPT !.pc = @ + k]

\* mutant: wrapping_sub(1) in place of saturating_sub(1)
SaturatingDec_Wrapping(t) == (t + U8 - 1) % U8

\* u8::saturating_sub(1)
SaturatingDec(t) == IF t = 0 THEN 0 ELSE t - 1

\* (self.keys >> key) & 1 == 1, once the shift is known not to panic: a
\* wrapping shift of a u16 takes the amount modulo 16
KeyIsPressed(ks, key) == (key % 16) \in ks

\* self.keys >> key overflows when key is 16 or more
KeyShiftOverflows(key) == key >= 16

\* ChipState::rand: the xorshift steps; the caller takes the low byte
RandSeed(seed) ==
    LET s1 == Xor(seed, Shl(seed, 13, 64))
        s2 == Xor(s1, Shr(s1, 17))
    IN  Xor(s2, Shl(s2, 5, 64))

RandByte(seed) == FromBits(seed \cap 0..7)

----------------------------------------------------------------------------
(* The branches of eval.  Each takes the machine before the instruction    *)
(* and gives the outcome, before the timer decrement at the end of eval.   *)

\* 00E0 clearing the first row only
Op00E0_ClearsFirstRow(s) ==
    Ok(AdvancePc([s EXCEPT !.fbuf[0] = {}], 2))

Op00E0(s) ==
    Ok(AdvancePc([s EXCEPT !.fbuf = [r \in 0..(FbufRows - 1) |-> {}]], 2))

Op00EE(s) ==
    IF s.stack = <<>> THEN PoppedEmptyStack(s)
    ELSE Ok([s EXCEPT !.pc = s.stack[Len(s.stack)],
                      !.stack = SubSeq(s.stack, 1, Len(s.stack) - 1)])

Op1NNN(s, w) == Ok([s EXCEPT !.pc = FieldNNN(w)])

\* mutant: pushes the address of the call itself
Op2NNN_PushesPc(s, w) ==
    Ok([s EXCEPT !.stack = Append(@, s.pc), !.pc = FieldNNN(w)])

Op2NNN(s, w) ==
    Ok([s EXCEPT !.stack = Append(@, s.pc + 2), !.pc = FieldNNN(w)])

\* mutant: the skip advances by one byte, then by two
Op3XKK_SkipsThree(s, w) ==
    Ok(AdvancePc(s, IF s.reg[FieldX(w)] = FieldKK(w) THEN 3 ELSE 2))

Op3XKK(s, w) ==
    Ok(AdvancePc(s, IF s.reg[FieldX(w)] = FieldKK(w) THEN 4 ELSE 2))

Op4XKK(s, w) ==
    Ok(AdvancePc(s, IF s.reg[FieldX(w)] # FieldKK(w) THEN 4 ELSE 2))

Op5XY0(s, w) ==
    IF FieldN(w) # 0 THEN UndefinedOp(s, w)
    ELSE Ok(AdvancePc(s, IF s.reg[FieldX(w)] = s.reg[FieldY(w)] THEN 4 ELSE 2))

Op6XKK(s, w) ==
    Ok(AdvancePc([s EXCEPT !.reg[FieldX(w)] = FieldKK(w)], 2))

Op7XKK(s, w) ==
    Ok(AdvancePc([s EXCEPT !.reg[FieldX(w)] = (@ + FieldKK(w)) % U8], 2))

Op8XY0(s, x, y) == [s EXCEPT !.reg[x] = s.reg[y]]

Op8XY1(s, x, y) ==
    LET r1 == [s.reg EXCEPT ![x] = BitOr(@, s.reg[y])]
    IN  [s EXCEPT !.reg = [r1 EXCEPT ![VF] = 0]]

Op8XY2(s, x, y) ==
    LET r1 == [s.reg EXCEPT ![x] = BitAnd(@, s.reg[y])]
    IN  [s EXCEPT !.reg = [r1 EXCEPT ![VF] = 0]]

Op8XY3(s, x, y) ==
    LET r1 == [s.reg EXCEPT ![x] = BitXor(@, s.reg[y])]
    IN  [s EXCEPT !.reg = [r1 EXCEPT ![VF] = 0]]

\* mutant: the carry is taken from the wrapped sum, so it is never set
Op8XY4_NoCarry(s, x, y) ==
    LET sum == (s.reg[x] + s.reg[y]) % U8
        r1 == [s.reg EXCEPT ![x] = sum]
    IN  [s EXCEPT !.reg = [r1 EXCEPT ![VF] = IF sum >= U8 THEN 1 ELSE 0]]

Op8XY4(s, x, y) ==
    LET sum == s.reg[x] + s.reg[y]
        r1 == [s.reg EXCEPT ![x] = sum % U8]
    IN  [s EXCEPT !.reg = [r1 EXCEPT ![VF] = IF sum >= U8 THEN 1 ELSE 0]]

\* reg[y] is read again, after reg[x] was written, for the flag
Op8XY5(s, x, y) ==
    LET orig_x == s.reg[x]
        diff == (s.reg[x] - s.reg[y] + U8) % U8
        r1 == [s.reg EXCEPT ![x] = diff]
    IN  [s EXCEPT !.reg = [r1 EXCEPT ![VF] = IF orig_x > r1[y] THEN 1 ELSE 0]]

Op8XY6(s, x, y) ==
    LET orig == s.reg[y]
        r1 == [s.reg EXCEPT ![x] = orig \div 2]
    IN  [s EXCEPT !.reg = [r1 EXCEPT ![VF] = orig % 2]]

\* both reg[y] and reg[x] are read for the flag after reg[x] was written
Op8XY7(s, x, y) ==
    LET diff == (s.reg[y] - s.reg[x] + U8) % U8
        r1 == [s.reg EXCEPT ![x] = diff]
    IN  [s EXCEPT !.reg = [r1 EXCEPT ![VF] = IF r1[y] > r1[x] THEN 1 ELSE 0]]

Op8XYE(s, x, y) ==
    LET orig == s.reg[y]
        r1 == [s.reg EXCEPT ![x] = (orig * 2) % U8]
    IN  [s EXCEPT !.reg = [r1 EXCEPT ![VF] = orig \div 128]]

Op8XYN(s, w) ==
    LET x == FieldX(w)
        y == FieldY(w)
    IN  CASE FieldN(w) = 0 -> Ok(AdvancePc(Op8XY0(s, x, y), 2))
          [] FieldN(w) = 1 -> Ok(AdvancePc(Op8XY1(s, x, y), 2))
          [] FieldN(w) = 2 -> Ok(AdvancePc(Op8XY2(s, x, y), 2))
          [] FieldN(w) = 3 -> Ok(AdvancePc(Op8XY3(s, x, y), 2))
          [] FieldN(w) = 4 -> Ok(AdvancePc(Op8XY4(s, x, y), 2))
          [] FieldN(w) = 5 -> Ok(AdvancePc(Op8XY5(s, x, y), 2))
          [] FieldN(w) = 6 -> Ok(AdvancePc(Op8XY6(s, x, y), 2))
          [] FieldN(w) = 7 -> Ok(AdvancePc(Op8XY7(s, x, y), 2))
          [] FieldN(w) = 14 -> Ok(AdvancePc(Op8XYE(s, x, y), 2))
          [] OTHER -> UndefinedOp(s, w)

Op9XY0(s, w) ==
    IF FieldN(w) # 0 THEN UndefinedOp(s, w)
    ELSE Ok(AdvancePc(s, IF s.reg[FieldX(w)] # s.reg[FieldY(w)] THEN 4 ELSE 2))

OpANNN(s, w) == Ok(AdvancePc([s EXCEPT !.i = FieldNNN(w)], 2))

\* at most 0xFFF + 0xFF: no u16 overflow
OpBNNN(s, w) == Ok([s EXCEPT !.pc = FieldNNN(w) + s.reg[0]])

\* CXKK masking the low byte of the seed as it was before the request
OpCXKK_OldSeedByte(s, w) ==
    LET seed == RandSeed(s.rng_seed)
    IN  Ok(AdvancePc([s EXCEPT !.rng_seed = seed,
                               !.reg[FieldX(w)] =
                                   BitAnd(RandByte(s.rng_seed), FieldKK(w))],
                     2))

OpCXKK(s, w) ==
    LET seed == RandSeed(s.rng_seed)
    IN  Ok(AdvancePc([s EXCEPT !.rng_seed = seed,
                               !.reg[FieldX(w)] = BitAnd(RandByte(seed), FieldKK(w))],
                     2))

----------------------------------------------------------------------------
(* DXYN.                                                                   *)

\* the line rotated right by x: bits past column 63 come back at column 0
SpriteLine_Wraps(byte, x) ==
    {(b + 64 - x) % 64 : b \in Shl(Bits(byte), 56, 64)}

\* u64::from(byte) << 56 >> x
SpriteLine(byte, x) == Shr(Shl(Bits(byte), 56, 64), x)

\* mutant: reg[F] accumulates the collisions of all rows
DrawRow_FlagAccumulates(s, byte, x, y) ==
    LET line == SpriteLine(byte, x)
        compare == s.fbuf[y] \cup line
        new == Xor(s.fbuf[y], line)
    IN  [s EXCEPT !.fbuf[y] = new,
                  !.reg[VF] = IF new # compare \/ s.reg[VF] = 1 THEN 1 ELSE 0]

\* mutant: the line is ORed into the row
DrawRow_Or(s, byte, x, y) ==
    LET line == SpriteLine(byte, x)
        compare == s.fbuf[y] \cup line
        new == s.fbuf[y] \cup line
    IN  [s EXCEPT !.fbuf[y] = new,
                  !.reg[VF] = IF Xor(s.fbuf[y], line) # compare THEN 1 ELSE 0]

\* one pass of the loop body: XOR the line into row y, set reg[F]
DrawRow(s, byte, x, y) ==
    LET line == SpriteLine(byte, x)
        compare == s.fbuf[y] \cup line
        new == Xor(s.fbuf[y], line)
    IN  [s EXCEPT !.fbuf[y] = new,
                  !.reg[VF] = IF new # compare THEN 1 ELSE 0]

\* for i in a..end: reads mem[i] (a panic when i is out of range), draws,
\* and breaks once y + 1 > 31
RECURSIVE DrawRows(_, _, _, _, _, _)
DrawRows(s0, s, a, end, x, y) ==
    IF a >= end THEN Ok(s)
    ELSE IF a >= MemSize THEN Panic(s0)
    ELSE LET s1 == DrawRow(s, MemRead(s.mem, a), x, y)
         IN  IF y + 1 > FbufRows - 1 THEN Ok(s1)
             ELSE DrawRows(s0, s1, a + 1, end, x, y + 1)

\* self.i + n is a u16 sum: past 0xFFFF it panics or wraps (the range is
\* then empty and nothing is drawn)
OpDXYN(s, w) ==
    LET x == s.reg[FieldX(w)] % FbufCols
        y == s.reg[FieldY(w)] % FbufRows
        s1 == [s EXCEPT !.reg[VF] = 0]
        n == FieldN(w)
        end == s.i + n
    IN  IF end >= U16 /\ overflow_checks THEN Panic(s)
        ELSE LET r == DrawRows(s, s1, s.i, end % U16, x, y)
             IN  IF r.kind = "Ok" THEN Ok(AdvancePc(r.s, 2)) ELSE r

----------------------------------------------------------------------------
(* EX__ and FX__.                                                          *)

OpEXKK(s, w) ==
    LET key == s.reg[FieldX(w)]
    IN  CASE FieldKK(w) = 158 ->
               IF KeyShiftOverflows(key) /\ overflow_checks THEN Panic(s)
               ELSE Ok(AdvancePc(s, IF KeyIsPressed(s.keys, key) THEN 4 ELSE 2))
          [] FieldKK(w) = 161 ->
               IF KeyShiftOverflows(key) /\ overflow_checks THEN Panic(s)
               ELSE Ok(AdvancePc(s, IF ~KeyIsPressed(s.keys, key) THEN 4 ELSE 2))
          [] OTHER -> UndefinedOp(s, w)

\* FX07 reading the delay timer after the decrement of the same tick
OpFX07_AfterDecrement(s, w) ==
    Ok(AdvancePc([s EXCEPT !.reg[FieldX(w)] = SaturatingDec(s.d_tim)], 2))

OpFX07(s, w) == Ok(AdvancePc([s EXCEPT !.reg[FieldX(w)] = s.d_tim], 2))

\* FX0A taking the last pressed key of the scan instead of the first
OpFX0A_HighestKey(s, w) ==
    LET pressed == {k \in 0..15 : KeyIsPressed(s.keys, k)}
    IN  IF pressed = {} THEN Ok(s)
        ELSE LET k == CHOOSE k \in pressed : \A l \in pressed : k >= l
             IN  Ok(AdvancePc([s EXCEPT !.reg[FieldX(w)] = k], 2))

\* for i in 0..=0xF: the first pressed key ends the loop
OpFX0A(s, w) ==
    LET pressed == {k \in 0..15 : KeyIsPressed(s.keys, k)}
    IN  IF pressed = {} THEN Ok(s)
        ELSE LET k == CHOOSE k \in pressed : \A l \in pressed : k <= l
             IN  Ok(AdvancePc([s EXCEPT !.reg[FieldX(w)] = k], 2))

OpFX15(s, w) == Ok(AdvancePc([s EXCEPT !.d_tim = s.reg[FieldX(w)]], 2))

OpFX18(s, w) == Ok(AdvancePc([s EXCEPT !.s_tim = s.reg[FieldX(w)]], 2))

\* self.i += u16::from(reg[x]): past 0xFFFF it panics or wraps
OpFX1E(s, w) ==
    LET sum == s.i + s.reg[FieldX(w)]
    IN  IF sum >= U16 /\ overflow_checks THEN Panic(s)
        ELSE Ok(AdvancePc([s EXCEPT !.i = sum % U16], 2))

OpFX29(s, w) == Ok(AdvancePc([s EXCEPT !.i = s.reg[FieldX(w)] * 5], 2))

\* writes mem[i], mem[i + 1], mem[i + 2] (usize sums)
OpFX33(s, w) ==
    LET reg_value == s.reg[FieldX(w)]
        m1 == MemWrite(s.mem, s.i, reg_value \div 100)
        m2 == MemWrite(m1, s.i + 1, (reg_value % 100) \div 10)
        m3 == MemWrite(m2, s.i + 2, reg_value % 10)
    IN  IF s.i + 2 >= MemSize THEN Panic(s)
        ELSE Ok(AdvancePc([s EXCEPT !.mem = m3], 2))

RECURSIVE StoreRegs(_, _, _, _, _)
\* for x in 0..=last: mem[i + x] = reg[x]
StoreRegs(m, r, base, x, last) ==
    IF x > last THEN m
    ELSE StoreRegs(MemWrite(m, base + x, r[x]), r, base, x + 1, last)

\* FX55 leaving I past the last byte written
OpFX55_AdvancesPastX(s, w) ==
    IF s.i + FieldX(w) >= MemSize THEN Panic(s)
    ELSE Ok(AdvancePc([s EXCEPT !.mem = StoreRegs(s.mem, s.reg, s.i, 0, FieldX(w)),
                                !.i = s.i + FieldX(w) + 1],
                      2))

\* i <= 4095 - X after the loop, so i += 1 cannot overflow
OpFX55(s, w) ==
    IF s.i + FieldX(w) >= MemSize THEN Panic(s)
    ELSE Ok(AdvancePc([s EXCEPT !.mem = StoreRegs(s.mem, s.reg, s.i, 0, FieldX(w)),
                                !.i = s.i + 1],
                      2))

\* for x in 0..=X: reg[x] = mem[i + x]
OpFX65(s, w) ==
    IF s.i + FieldX(w) >= MemSize THEN Panic(s)
    ELSE Ok(AdvancePc([s EXCEPT !.reg = [x \in 0..(NumRegs - 1) |->
                                            IF x <= FieldX(w)
                                            THEN MemRead(s.mem, s.i + x)
                                            ELSE s.reg[x]],
                                !.i = s.i + 1],
                      2))

OpFXKK(s, w) ==
    CASE FieldKK(w) = 7 -> OpFX07(s, w)
      [] FieldKK(w) = 10 -> OpFX0A(s, w)
      [] FieldKK(w) = 21 -> OpFX15(s, w)
      [] FieldKK(w) = 24 -> OpFX18(s, w)
      [] FieldKK(w) = 30 -> OpFX1E(s, w)
      [] FieldKK(w) = 41 -> OpFX29(s, w)
      [] FieldKK(w) = 51 -> OpFX33(s, w)
      [] FieldKK(w) = 85 -> OpFX55(s, w)
      [] FieldKK(w) = 101 -> OpFX65(s, w)
      [] OTHER -> UndefinedOp(s, w)

----------------------------------------------------------------------------
(* eval and tick.                                                          *)

\* match upper & 0xF0
Dispatch(s, w) ==
    CASE TopNibble(w) = 0 ->
             (CASE w = 224 -> Op00E0(s)
                [] w = 238 -> Op00EE(s)
                [] OTHER -> UndefinedOp(s, w))
      [] TopNibble(w) = 1 -> Op1NNN(s, w)
      [] TopNibble(w) = 2 -> Op2NNN(s, w)
      [] TopNibble(w) = 3 -> Op3XKK(s, w)
      [] TopNibble(w) = 4 -> Op4XKK(s, w)
      [] TopNibble(w) = 5 -> Op5XY0(s, w)
      [] TopNibble(w) = 6 -> Op6XKK(s, w)
      [] TopNibble(w) = 7 -> Op7XKK(s, w)
      [] TopNibble(w) = 8 -> Op8XYN(s, w)
      [] TopNibble(w) = 9 -> Op9XY0(s, w)
      [] TopNibble(w) = 10 -> OpANNN(s, w)
      [] TopNibble(w) = 11 -> OpBNNN(s, w)
      [] TopNibble(w) = 12 -> OpCXKK(s, w)
      [] TopNibble(w) = 13 -> OpDXYN(s, w)
      [] TopNibble(w) = 14 -> OpEXKK(s, w)
      [] TopNibble(w) = 15 -> OpFXKK(s, w)

\* the two saturating_sub(1) that end eval when no branch returned early
DecTimers(s) ==
    [s EXCEPT !.d_tim = SaturatingDec(@), !.s_tim = SaturatingDec(@)]

\* mutant: the timers are decremented before the match, errors included
Eval_TimersFirst(s, w) ==
    LET r == Dispatch(s, w)
    IN  IF r.kind = "Panic" THEN r ELSE [r EXCEPT !.s = DecTimers(@)]

Eval(s, w) ==
    LET r == Dispatch(s, w)
    IN  IF r.kind = "Ok" THEN Ok(DecTimers(r.s)) ELSE r

\* ChipState::tick on machine s: the fetch indexes mem[pc] and mem[pc + 1]
TickOf(s) ==
    IF s.pc + 1 >= MemSize THEN [r |-> Panic(s), w |-> -1]
    ELSE [r |-> Eval(s, Fetch(s.mem, s.pc)), w |-> Fetch(s.mem, s.pc)]

----------------------------------------------------------------------------
(* The operations of ChipState as actions.                                 *)

\* seeds handed to ChipState::new (any u64; the driver passes the time)
Seeds == {{1, 4, 30, 63}}

\* ChipState::new(seed), under either build profile
New(seed, checks) ==
    /\ mem = SpriteMem
    /\ reg = [x \in 0..(NumRegs - 1) |-> 0]
    /\ i = 0
    /\ pc = 0
    /\ stack = <<>>
    /\ fbuf = [r \in 0..(FbufRows - 1) |-> {}]
    /\ keys = {}
    /\ d_tim = 0
    /\ s_tim = 0
    /\ rng_seed = seed
    /\ overflow_checks = checks
    /\ phase = "created"
    /\ instr = -1
    /\ result = [kind |-> "None", op |-> -1]

Init == \E seed \in Seeds, checks \in BOOLEAN : New(seed, checks)

\* ChipState::load(rom), called once, after new (rom of at most 3584 bytes)
Load(rom) ==
    /\ phase = "created"
    /\ mem' = CopyRom(mem, rom, 1)
    /\ pc' = RomStart
    /\ phase' = "running"
    /\ UNCHANGED <<reg, i, stack, fbuf, keys, d_tim, s_tim, rng_seed,
                   overflow_checks, instr, result>>

\* ChipState::tick.  A panic ends the run.
Tick ==
    /\ phase = "running"
    /\ \E t \in {TickOf(Machine)} :
           /\ Len(t.r.s.stack) <= MaxStack
           /\ mem' = t.r.s.mem
           /\ reg' = t.r.s.reg
           /\ i' = t.r.s.i
           /\ pc' = t.r.s.pc
           /\ stack' = t.r.s.stack
           /\ fbuf' = t.r.s.fbuf
           /\ keys' = t.r.s.keys
           /\ d_tim' = t.r.s.d_tim
           /\ s_tim' = t.r.s.s_tim
           /\ rng_seed' = t.r.s.rng_seed
           /\ instr' = t.w
           /\ result' = [kind |-> t.r.kind, op |-> t.r.op]
           /\ phase' = IF t.r.kind = "Panic" THEN "crashed" ELSE phase
    /\ UNCHANGED overflow_checks

\* self.keys |= 1 << key, for key in 0..15
KeysPressed(ks, key) == ks \cup {key}

\* release_key clearing the whole mask
KeysReleased_ClearsAll(ks, key) == {}

\* self.keys &= !(1 << key), for key in 0..15
KeysReleased(ks, key) == ks \ {key}

PressKey(key) ==
    /\ phase # "crashed"
    /\ keys' = KeysPressed(keys, key)
    /\ UNCHANGED <<mem, reg, i, pc, stack, fbuf, d_tim, s_tim, rng_seed,
                   overflow_checks, phase, instr, result>>

ReleaseKey(key) ==
    /\ phase # "crashed"
    /\ keys' = KeysReleased(keys, key)
    /\ UNCHANGED <<mem, reg, i, pc, stack, fbuf, d_tim, s_tim, rng_seed,
                   overflow_checks, phase, instr, result>>

\* the ROMs of at most MaxRomLen instruction words over a set of words
Roms(words) ==
    {WordsToBytes(ws) : ws \in UNION {[1..n -> words] : n \in 0..MaxRomLen}}

----------------------------------------------------------------------------
(* Spec: errors, timers, key waits and out-of-range accesses, with key     *)
(* events between the ticks.                                               *)

MainWords ==
    { \H00EE, \H1FFF, \H2202, \H5001, \H6003, \HF015, \HF018, \HF00A,
      \HAFFF, \HF033 }

LoadMain == phase = "created" /\ \E rom \in Roms(MainWords) : Load(rom)

PressAny == \E key \in 0..MaxKey : PressKey(key)

ReleaseAny == \E key \in 0..MaxKey : ReleaseKey(key)

Next == LoadMain \/ Tick \/ PressAny \/ ReleaseAny

Spec == Init /\ [][Next]_vars

(* SpecErr: every branch of eval that returns an error, reached with a    *)
(* running timer, a non-empty stack or a pressed key.                      *)

ErrWords ==
    { \H00EE, \H00E1, \H2202, \H5001, \H8008, \H9001, \HE09F, \HF0FF,
      \H6003, \HF015 }

LoadErr == phase = "created" /\ \E rom \in Roms(ErrWords) : Load(rom)

NextErr == LoadErr \/ Tick \/ PressAny \/ ReleaseAny

SpecErr == Init /\ [][NextErr]_vars

(* SpecFlow: jumps, calls, returns and skips, with key events.             *)

FlowWords ==
    { \H00EE, \H1203, \H2200, \H2202, \H2204, \H3000, \H6011, \HB202,
      \HE09E }

LoadFlow == phase = "created" /\ \E rom \in Roms(FlowWords) : Load(rom)

NextFlow == LoadFlow \/ Tick \/ PressAny \/ ReleaseAny

SpecFlow == Init /\ [][NextFlow]_vars

(* SpecArith: register arithmetic.  None of these instructions reads the   *)
(* keys, so no key events are generated.                                   *)

ArithWords ==
    { \H6005, \H6107, \H8015, \H8017, \H8005, \H8F15, \H8F17, \H8014,
      \H8F14, \H70FF, \H7F01 }

LoadArith == phase = "created" /\ \E rom \in Roms(ArithWords) : Load(rom)

NextArith == LoadArith \/ Tick

SpecArith == Init /\ [][NextArith]_vars

(* SpecDraw: sprite drawing.  No key events either.                        *)

DrawWords ==
    { \H00E0, \HA005, \HAFFF, \H603E, \H611E, \HD005, \HD006, \HD000,
      \HD015, \HDF05 }

LoadDraw == phase = "created" /\ \E rom \in Roms(DrawWords) : Load(rom)

NextDraw == LoadDraw \/ Tick

SpecDraw == Init /\ [][NextDraw]_vars

----------------------------------------------------------------------------
(* Claims C1 - C6: errors, calls, alignment, timers.                       *)

\* the word the tick about to run fetches (pc + 1 in range)
FetchedWord == Fetch(mem, pc)

\* a tick step whose fetch stays inside the memory
TickFetched == Tick /\ pc + 1 < MemSize

TickOk == TickFetched /\ result'.kind = "Ok"

\* C1: whenever tick returns UndefinedOp or PoppedEmptyStack, memory, the
\* registers, I, PC, the stack, the framebuffer, the key mask, the RNG seed
\* and both timers are what they were before the call.
C1_ErrorLeavesMachineUnchanged ==
    [][(Tick /\ result'.kind \in {"UndefinedOp", "PoppedEmptyStack"})
         => machine' = machine]_vars

\* a return on an empty stack failed while the delay timer was running
C1_Witness ==
    /\ phase = "running"
    /\ instr = \H00EE
    /\ result.kind = "PoppedEmptyStack"
    /\ d_tim > 0

\* the patterns of the opcode table
InOpcodeTable(w) ==
    \/ w \in {\H00E0, \H00EE}
    \/ TopNibble(w) \in {1, 2, 3, 4, 6, 7, 10, 11, 12, 13}
    \/ TopNibble(w) \in {5, 9} /\ FieldN(w) = 0
    \/ TopNibble(w) = 8 /\ FieldN(w) \in {0, 1, 2, 3, 4, 5, 6, 7, 14}
    \/ TopNibble(w) = 14 /\ FieldKK(w) \in {\H9E, \HA1}
    \/ TopNibble(w) = 15
         /\ FieldKK(w) \in {\H07, \H0A, \H15, \H18, \H1E, \H29, \H33, \H55, \H65}

\* C2: the outcome of a tick is fixed by the fetched word w and the stack:
\* PoppedEmptyStack iff w = 00EE on an empty stack, UndefinedOp(w) iff w
\* is in no pattern of the opcode table, and Ok in every other case.
C2_OutcomeByWordAndStack ==
    [][TickFetched =>
         result' = IF FetchedWord = \H00EE /\ stack = <<>>
                   THEN [kind |-> "PoppedEmptyStack", op |-> -1]
                   ELSE IF ~InOpcodeTable(FetchedWord)
                   THEN [kind |-> "UndefinedOp", op |-> FetchedWord]
                   ELSE [kind |-> "Ok", op |-> -1]]_vars

\* C3: a tick executing 2NNN at p pushes p + 2 and sets PC = NNN; a tick
\* executing 00EE on a non-empty stack removes the top entry and sets PC to
\* it; no other step changes the stack.  So the depth changes by +1 per
\* executed call, -1 per executed return and by nothing else.
C3_CallsAndReturnsAreLifo ==
    [][IF TickOk /\ TopNibble(FetchedWord) = 2
       THEN stack' = Append(stack, pc + 2) /\ pc' = FieldNNN(FetchedWord)
       ELSE IF TickOk /\ FetchedWord = \H00EE
       THEN /\ stack # <<>>
            /\ stack' = SubSeq(stack, 1, Len(stack) - 1)
            /\ pc' = stack[Len(stack)]
       ELSE stack' = stack]_vars

\* a return from a nested call: the inner call's return address was popped
\* and the outer one is still on the stack
C3_Witness ==
    /\ instr = \H00EE
    /\ result.kind = "Ok"
    /\ Len(stack) >= 1
    /\ TopNibble(Fetch(mem, pc - 2)) = 2

\* C4: in every state reachable from new, load and any ticks and key
\* events, tick returns (Ok or one of the two errors): it never panics on
\* an out-of-range memory access or an arithmetic overflow.
C4_TickAlwaysReturns == result.kind # "Panic"

\* C5 as stated: PC is even in every state reachable after load.
C5_PcAlwaysEven == phase = "running" => pc % 2 = 0

\* PC and every stacked return address are even
Aligned == pc % 2 = 0 /\ \A k \in 1..Len(stack) : stack[k] % 2 = 0

\* a jump or call word whose target address is odd
OddTarget(w) ==
    \/ TopNibble(w) \in {1, 2} /\ FieldNNN(w) % 2 = 1
    \/ TopNibble(w) = 11 /\ (FieldNNN(w) + reg[0]) % 2 = 1

\* C5, amended: load leaves PC even, and every step keeps PC and all
\* stacked return addresses even, except a tick executing 1NNN / 2NNN with
\* an odd NNN or BNNN with an odd NNN + reg[0].
C5_AlignedUnlessOddTarget ==
    [][(Aligned /\ ~(TickFetched /\ OddTarget(FetchedWord))) => Aligned']_vars

\* a return to an even address, after a call
C5_Witness ==
    /\ phase = "running"
    /\ instr = \H00EE
    /\ result.kind = "Ok"
    /\ pc > RomStart
    /\ Aligned

\* C6: a tick that returns Ok leaves each timer at one less than the value
\* the instruction left it with (reg[X] for FX15 on the delay timer and
\* FX18 on the sound timer, the old value for every other instruction),
\* and at 0 when that value is 0; so a timer not rewritten never increases.
C6_TimersDecrementSaturating ==
    [][TickOk =>
         LET w == FetchedWord
             d == IF TopNibble(w) = 15 /\ FieldKK(w) = \H15
                  THEN reg[FieldX(w)] ELSE d_tim
             s == IF TopNibble(w) = 15 /\ FieldKK(w) = \H18
                  THEN reg[FieldX(w)] ELSE s_tim
         IN  /\ d_tim' = (IF d > 0 THEN d - 1 ELSE 0)
             /\ s_tim' = (IF s > 0 THEN s - 1 ELSE 0)]_vars

\* an FX0A tick that found no key pressed: the delay timer went down to 1
\* during the wait while the sound timer stayed at 0
C6_Witness ==
    /\ instr = \HF00A
    /\ result.kind = "Ok"
    /\ keys = {}
    /\ FetchedWord = \HF00A
    /\ d_tim = 1
    /\ s_tim = 0

----------------------------------------------------------------------------
(* Claims C7, C8: subtraction and addition.                                *)

Is8XYN(w, n) == TopNibble(w) = 8 /\ FieldN(w) = n

\* C7 (flag): after a tick executing 8XY5 (8XY7), reg[F] is 1 iff
\* reg[X] > reg[Y] (reg[Y] > reg[X]), both as they were before the
\* instruction, and 0 otherwise.
C7_BorrowFlagFromOldValues ==
    [][TickOk =>
         LET w == FetchedWord
             x == FieldX(w)
             y == FieldY(w)
         IN  /\ Is8XYN(w, 5) => reg'[VF] = (IF reg[x] > reg[y] THEN 1 ELSE 0)
             /\ Is8XYN(w, 7) => reg'[VF] = (IF reg[y] > reg[x] THEN 1 ELSE 0)]_vars

\* C8 as stated: 7XKK and 8XY4 leave (old reg[X] + addend) mod 256 in
\* reg[X] for every X; 8XY4 leaves the carry in reg[F]; 7XKK leaves reg[F]
\* alone unless X = F.
C8_AddWrapsForEveryX ==
    [][TickOk =>
         LET w == FetchedWord
             x == FieldX(w)
             y == FieldY(w)
         IN  /\ TopNibble(w) = 7 =>
                  /\ reg'[x] = (reg[x] + FieldKK(w)) % 256
                  /\ x # VF => reg'[VF] = reg[VF]
             /\ Is8XYN(w, 4) =>
                  /\ reg'[x] = (reg[x] + reg[y]) % 256
                  /\ reg'[VF] = (IF reg[x] + reg[y] > 255 THEN 1 ELSE 0)]_vars

\* C8, amended: as stated, except that for 8XY4 reg[X] holds the wrapped
\* sum only when X is not F; reg[F] always holds the carry, which is
\* written after the sum.
C8_AddWrapsCarryLast ==
    [][TickOk =>
         LET w == FetchedWord
             x == FieldX(w)
             y == FieldY(w)
         IN  /\ TopNibble(w) = 7 =>
                  /\ reg'[x] = (reg[x] + FieldKK(w)) % 256
                  /\ x # VF => reg'[VF] = reg[VF]
             /\ Is8XYN(w, 4) =>
                  /\ x # VF => reg'[x] = (reg[x] + reg[y]) % 256
                  /\ reg'[VF] = (IF reg[x] + reg[y] > 255 THEN 1 ELSE 0)]_vars

\* 8014 has added 7 to 255: reg[0] wrapped to 6 and the carry is set
C8_Witness ==
    /\ instr = \H8014
    /\ result.kind = "Ok"
    /\ reg[0] = 6
    /\ reg[1] = 7
    /\ reg[VF] = 1

----------------------------------------------------------------------------
(* Claims C9, C10: sprite drawing.  Column c of a framebuffer row is bit   *)
(* 63 - c of its u64; column k of a sprite byte is its bit 7 - k.          *)

PixelSet(row, c) == (63 - c) \in row

SpriteBit(byte, k) == (byte \div Pow2(7 - k)) % 2 = 1

\* the number of rows a DXYN about to run draws: N, cut at row 31; none
\* when the u16 sum I + N wraps
RowsDrawn(w) ==
    LET room == 32 - (reg[FieldY(w)] % 32)
    IN  IF i + FieldN(w) > 65535 THEN 0
        ELSE IF FieldN(w) < room THEN FieldN(w) ELSE room

\* whether the last row a DXYN about to run draws erases a set pixel
LastRowCollides(w) ==
    LET x == reg[FieldX(w)] % 64
        r == (reg[FieldY(w)] % 32) + RowsDrawn(w) - 1
        byte == MemRead(mem, i + RowsDrawn(w) - 1)
    IN  \E c \in 0..63 :
            /\ PixelSet(fbuf[r], c)
            /\ c - x \in 0..7
            /\ SpriteBit(byte, c - x)

\* C9: after a tick executing DXYN, reg[F] is 1 iff the last row drawn had
\* a set pixel under a set sprite bit, whatever happened in earlier rows,
\* and 0 when no row was drawn (N = 0).
C9_FlagIsLastRowCollision ==
    [][(TickOk /\ TopNibble(FetchedWord) = 13) =>
         reg'[VF] = (IF RowsDrawn(FetchedWord) > 0 /\ LastRowCollides(FetchedWord)
                     THEN 1 ELSE 0)]_vars

\* D006 over the digit-0 glyph: rows 0..4 were erased (collisions), row 5
\* was drawn on an empty row, and reg[F] is 0
C9_Witness ==
    /\ instr = \HD006
    /\ result.kind = "Ok"
    /\ reg[VF] = 0
    /\ fbuf[0] = {}
    /\ fbuf[4] = {}
    /\ fbuf[5] = {61}

\* the framebuffer that holds the digit-0 glyph at (0, 0) and nothing else
DigitZeroAtOrigin ==
    [r \in 0..31 |->
        IF r \in {0, 4} THEN {63, 62, 61, 60}
        ELSE IF r \in {1, 2, 3} THEN {63, 60} ELSE {}]

\* C10: a DXYN tick that leaves reg[X] and reg[Y] as they were, followed
\* by the same DXYN, gives back the framebuffer from before the first; a
\* ROM starting D005 D005 (glyph 0 at (0, 0) on the cleared framebuffer)
\* has reg[F] = 0 and the glyph on screen after the first tick, reg[F] = 1
\* and an empty framebuffer after the second; a ROM D005 D006 D006 shows
\* the glyph alone again after the two 6-row draws over it.
C10_DrawTwiceRestores ==
    /\ [][(/\ TickOk
           /\ TopNibble(FetchedWord) = 13
           /\ reg'[FieldX(FetchedWord)] = reg[FieldX(FetchedWord)]
           /\ reg'[FieldY(FetchedWord)] = reg[FieldY(FetchedWord)])
          => LET again == Eval(Machine', FetchedWord)
             IN  again.kind = "Ok" /\ again.s.fbuf = fbuf]_vars
    /\ [](/\ (/\ result.kind = "Ok"
              /\ pc = RomStart + 2
              /\ Fetch(mem, RomStart) = \HD005)
             => reg[VF] = 0 /\ fbuf = DigitZeroAtOrigin
          /\ (/\ result.kind = "Ok"
              /\ pc = RomStart + 4
              /\ Fetch(mem, RomStart) = \HD005
              /\ Fetch(mem, RomStart + 2) = \HD005)
             => reg[VF] = 1 /\ fbuf = [r \in 0..31 |-> {}]
          /\ (/\ result.kind = "Ok"
              /\ pc = RomStart + 6
              /\ Fetch(mem, RomStart) = \HD005
              /\ Fetch(mem, RomStart + 2) = \HD006
              /\ Fetch(mem, RomStart + 4) = \HD006)
             => reg[VF] = 1 /\ fbuf = DigitZeroAtOrigin)

\* the second D005 of a ROM starting D005 D005 has run
C10_Witness ==
    /\ result.kind = "Ok"
    /\ instr = \HD005
    /\ pc = RomStart + 4
    /\ Fetch(mem, RomStart) = \HD005
    /\ Fetch(mem, RomStart + 2) = \HD005
    /\ reg[VF] = 1
    /\ fbuf = [r \in 0..31 |-> {}]

----------------------------------------------------------------------------
(* Claims C11 - C20.                                                       *)

(* SpecWait: FX0A with key events.  The frame loop calls tick once per     *)
(* frame for as long as the program runs, so a tick that would act on a    *)
(* held key is not postponed forever.                                       *)

WaitWords == { \HF10A, \H6103, \H1200 }

LoadWait == phase = "created" /\ \E rom \in Roms(WaitWords) : Load(rom)

NextWait == LoadWait \/ Tick \/ PressAny \/ ReleaseAny

TickHeld == Tick /\ keys # {}

SpecWait == Init /\ [][NextWait]_vars /\ WF_vars(TickHeld)

IsFX0A(w) == TopNibble(w) = 15 /\ FieldKK(w) = 10

\* the machine is about to execute an FX0A
AtFX0A == phase = "running" /\ pc + 1 < MemSize /\ IsFX0A(FetchedWord)

LowestKey(ks) == CHOOSE k \in ks : \A l \in ks : k <= l

\* C11: a tick that fetches FX0A returns Ok; with no key pressed it leaves
\* PC, the registers and memory as they were, so the next tick fetches the
\* same instruction; with a key pressed it sets reg[X] to the lowest pressed
\* key, keeps the other registers and advances PC by 2.  A machine waiting
\* at an FX0A with a key held leaves that FX0A, unless the key is released
\* before a tick ran.
C11_WaitForKey ==
    /\ [][(TickFetched /\ IsFX0A(FetchedWord))
            => /\ result'.kind = "Ok"
               /\ keys = {} => (pc' = pc /\ reg' = reg /\ mem' = mem)
               /\ keys # {} =>
                      /\ pc' = pc + 2
                      /\ reg' = [reg EXCEPT ![FieldX(FetchedWord)] =
                                               LowestKey(keys)]]_vars
    /\ \A p \in {RomStart + 2 * k : k \in 0..(MaxRomLen - 1)} :
           (AtFX0A /\ pc = p /\ keys # {})
              ~> (~(AtFX0A /\ pc = p) \/ keys = {})

\* FX0A found key 0 held, wrote 0 over the 3 in V1 and moved on
C11_Witness ==
    /\ instr = \HF10A
    /\ result.kind = "Ok"
    /\ Fetch(mem, RomStart) = \H6103
    /\ pc = RomStart + 4
    /\ 0 \in keys
    /\ reg[1] = 0

(* SpecRand: random numbers.  Two seeds, programs without jumps or skips,  *)
(* key events between the ticks.                                           *)

RandSeeds == {{1, 4, 30, 63}, {0, 7, 33}}

InitRand == \E seed \in RandSeeds, checks \in BOOLEAN : New(seed, checks)

RandWords == { \HC0FF, \HC10F, \H6003, \HF00A }

LoadRand == phase = "created" /\ \E rom \in Roms(RandWords) : Load(rom)

NextRand == LoadRand \/ Tick \/ PressAny \/ ReleaseAny

SpecRand == InitRand /\ [][NextRand]_vars

IsCXKK(w) == TopNibble(w) = 12

\* the seed after n requests
RECURSIVE RandIter(_, _)
RandIter(seed, n) == IF n = 0 THEN seed ELSE RandIter(RandSeed(seed), n - 1)

\* the CXKK instructions below pc: in a program without jumps and skips,
\* those that have been executed, once each
CxkkBefore ==
    Cardinality({a \in RomStart..(pc - 1) :
                    a % 2 = 0 /\ IsCXKK(Fetch(mem, a))})

\* C12: every CXKK advances the RNG seed by exactly one xorshift request and
\* writes (low byte of the new seed) AND KK to reg[X], leaving the other
\* registers alone; no other step (load, press, release, any other tick)
\* changes the seed; so the seed of a running machine is the initial seed
\* advanced once per CXKK executed, whatever key events came in between.
C12_RandomIsDeterministic ==
    /\ [][(TickOk /\ IsCXKK(FetchedWord))
            => /\ rng_seed' = RandSeed(rng_seed)
               /\ reg' = [reg EXCEPT ![FieldX(FetchedWord)] =
                            BitAnd(FromBits(rng_seed' \cap 0..7),
                                   FieldKK(FetchedWord))]]_vars
    /\ [][~(TickFetched /\ IsCXKK(FetchedWord)) => rng_seed' = rng_seed]_vars
    /\ [](phase = "running"
            => Cardinality({seed \in RandSeeds :
                               rng_seed = RandIter(seed, CxkkBefore)}) = 1)

\* the second of two CXKK has run and left a non-zero value
C12_Witness ==
    /\ phase = "running"
    /\ IsCXKK(instr)
    /\ result.kind = "Ok"
    /\ IsCXKK(Fetch(mem, RomStart))
    /\ pc = RomStart + 4
    /\ keys # {}
    /\ reg[FieldX(instr)] # 0
    /\ \E seed \in RandSeeds : rng_seed = RandIter(seed, 2)

\* ChipState::get_fbuf: the rows as the caller reads them
GetFbuf == fbuf

\* C13: after a tick executing 00E0 the framebuffer read back is 32 rows
\* that are all zero, whatever it held before; PC has advanced by 2, the
\* timers have taken their decrement and memory, the registers, I, the
\* stack, the key mask and the RNG seed are unchanged.
C13_ClearScreen ==
    [][(TickFetched /\ FetchedWord = \H00E0)
         => /\ result'.kind = "Ok"
            /\ DOMAIN GetFbuf' = 0..31
            /\ \A r \in 0..31 : GetFbuf'[r] = {}
            /\ pc' = pc + 2
            /\ d_tim' = IF d_tim = 0 THEN 0 ELSE d_tim - 1
            /\ s_tim' = IF s_tim = 0 THEN 0 ELSE s_tim - 1
            /\ UNCHANGED <<mem, reg, i, stack, keys, rng_seed>>]_vars

\* 00E0 has just cleared the five rows of a digit drawn at the origin
C13_Witness ==
    /\ instr = \H00E0
    /\ result.kind = "Ok"
    /\ Fetch(mem, RomStart) \in {\HD005, \HD006}
    /\ pc = RomStart + 4
    /\ \A r \in 0..31 : fbuf[r] = {}

\* the opcodes that set PC themselves: 1NNN, 2NNN, BNNN, 00EE
SetsPc(w) == TopNibble(w) \in {1, 2, 11} \/ w = \H00EE

\* the condition of a skip opcode as the opcode table states it; for EX9E
\* and EXA1 the key is reg[X] itself, and the mask has keys 0..15 only
SkipCondition(w) ==
    LET x == FieldX(w)
        y == FieldY(w)
    IN  CASE TopNibble(w) = 3 -> reg[x] = FieldKK(w)
          [] TopNibble(w) = 4 -> reg[x] # FieldKK(w)
          [] TopNibble(w) = 5 -> reg[x] = reg[y]
          [] TopNibble(w) = 9 -> reg[x] # reg[y]
          [] TopNibble(w) = 14 /\ FieldKK(w) = \H9E -> reg[x] \in keys
          [] TopNibble(w) = 14 /\ FieldKK(w) = \HA1 -> reg[x] \notin keys
          [] OTHER -> FALSE

\* C14: a successful tick executing 6XKK sets reg[X] = KK and PC = PC + 2;
\* a successful tick of any opcode other than 1NNN, 2NNN, BNNN, 00EE and an
\* FX0A with no key pressed advances PC by exactly 2, except that 3XKK,
\* 4XKK, 5XY0, 9XY0, EX9E and EXA1 advance it by exactly 4 when their
\* condition holds and by exactly 2 when it does not.
C14_PcAdvance ==
    [][TickOk =>
         LET w == FetchedWord
         IN  /\ TopNibble(w) = 6 =>
                    reg' = [reg EXCEPT ![FieldX(w)] = FieldKK(w)]
             /\ ~SetsPc(w) /\ ~(IsFX0A(w) /\ keys = {}) =>
                    pc' = pc + (IF SkipCondition(w) THEN 4 ELSE 2)]_vars

\* every field of the machine but the key mask
machineButKeys == <<mem, reg, i, pc, stack, fbuf, d_tim, s_tim, rng_seed>>

\* C15: pressKey(k) leaves bit k of the key mask set and releaseKey(k)
\* leaves it clear, whatever it was before (so a repeated call changes
\* nothing); either call leaves every other bit and every other field of
\* the machine as it was; no other step, tick included, changes the mask.
\* So bit k is set exactly when the last call for key k was pressKey.
C15_KeyMaskFrame ==
    [][/\ \A k \in 0..15 :
             PressKey(k) => /\ k \in keys'
                            /\ \A j \in 0..15 \ {k} : j \in keys' <=> j \in keys
                            /\ UNCHANGED machineButKeys
       /\ \A k \in 0..15 :
             ReleaseKey(k) => /\ k \notin keys'
                              /\ \A j \in 0..15 \ {k} : j \in keys' <=> j \in keys
                              /\ UNCHANGED machineButKeys
       /\ keys' # keys => \E k \in 0..15 : PressKey(k) \/ ReleaseKey(k)
       /\ Tick => keys' = keys]_vars

\* key 0 was held when FX0A ran (it overwrote the 3 in V1), has been
\* released since, and key 1 is held now
C15_Witness ==
    /\ instr = \HF10A
    /\ result.kind = "Ok"
    /\ Fetch(mem, RomStart) = \H6103
    /\ pc = RomStart + 4
    /\ reg[1] = 0
    /\ keys = {1}

(* SpecLoad: construction and loading.  Two seeds; keys may be pressed     *)
(* before the load; 00E0 has a zero byte.                                  *)

LoadWords == { \H00E0, \H6A3C, \H1200 }

LoadLoad == phase = "created" /\ \E rom \in Roms(LoadWords) : Load(rom)

NextLoad == LoadLoad \/ Tick \/ PressAny \/ ReleaseAny

SpecLoad == InitRand /\ [][NextLoad]_vars

\* the addresses of the glyphs and of a loaded ROM
GlyphArea == 0..(5 * NumRegs - 1)

RomArea(rom) == RomStart..(RomStart + Len(rom) - 1)

\* C16: loadProgram(bytes) changes PC and memory from 0x200 on and nothing
\* else; when it follows initialize(seed) directly, the machine then has
\* the glyph of digit d at 5*d .. 5*d+4, bytes[j] at 0x200 + j, zero in all
\* other memory (an address outside the domain of mem reads as 0),
\* PC = 0x200, and zero registers, I, timers and key mask, an empty stack
\* and an all-zero framebuffer; the seed is the one given to initialize.
C16_InitialLayout ==
    [][phase = "created" =>
         \A rom \in Roms(LoadWords) :
            Load(rom) =>
               /\ UNCHANGED <<reg, i, stack, fbuf, keys, d_tim, s_tim, rng_seed>>
               /\ \A a \in 0..(RomStart - 1) : MemRead(mem', a) = MemRead(mem, a)
               /\ pc' = RomStart
               /\ \A j \in 0..(Len(rom) - 1) :
                      MemRead(mem', RomStart + j) = rom[j + 1]
               /\ keys = {} =>
                     /\ \A d \in 0..15 : \A j \in 0..4 :
                            MemRead(mem', 5 * d + j) = HEX_SPRITES[d + 1][j + 1]
                     /\ \A a \in DOMAIN mem' :
                            a \in GlyphArea \cup RomArea(rom)
                     /\ reg' = [x \in 0..15 |-> 0]
                     /\ i' = 0
                     /\ stack' = <<>>
                     /\ \A r \in 0..31 : fbuf'[r] = {}
                     /\ d_tim' = 0 /\ s_tim' = 0
                     /\ keys' = {}
                     /\ rng_seed' \in RandSeeds]_vars

\* a machine just loaded with a three-word ROM, not yet ticked
C16_Witness ==
    /\ phase = "running"
    /\ instr = -1
    /\ keys = {}
    /\ pc = RomStart
    /\ Fetch(mem, RomStart) = \H6A3C
    /\ Fetch(mem, RomStart + 4) = \H00E0
    /\ MemRead(mem, 79) = 128

\* C17: a successful tick executing DXYN changes only the framebuffer rows
\* y0 .. min(y0 + N - 1, 31), y0 = reg[Y] mod 32; in row r of that range
\* the pixel at column c is flipped exactly when c is one of the columns
\* x0 .. x0 + 7, x0 = reg[X] mod 64, and bit c - x0 (from the most
\* significant) of mem[I + (r - y0)] is set: sprite bits past column 63
\* and sprite rows past row 31 are dropped, nothing wraps around.
C17_DrawClips ==
    [][(TickOk /\ TopNibble(FetchedWord) = 13 /\ i + FieldN(FetchedWord) < U16)
         => LET w == FetchedWord
                x0 == reg[FieldX(w)] % 64
                y0 == reg[FieldY(w)] % 32
                last == IF y0 + FieldN(w) - 1 < 31 THEN y0 + FieldN(w) - 1
                        ELSE 31
            IN  \A r \in 0..31 :
                   IF r \in y0..last
                   THEN \A c \in 0..63 :
                           PixelSet(fbuf'[r], c) <=>
                              (PixelSet(fbuf[r], c) #
                                 (/\ c - x0 \in 0..7
                                  /\ SpriteBit(MemRead(mem, i + (r - y0)),
                                               c - x0)))
                   ELSE fbuf'[r] = fbuf[r]]_vars

\* D005 with V0 = 62 drew the digit-0 glyph at column 62, row 30: two
\* columns and two rows of it are on the screen, none came back at column
\* 0 or row 0
C17_Witness ==
    /\ instr = \HD005
    /\ result.kind = "Ok"
    /\ reg[0] = 62
    /\ fbuf[30] = {0, 1}
    /\ fbuf[31] = {1}
    /\ fbuf[0] = {}

(* SpecTimer: setting and reading the timers.                              *)

TimerWords ==
    { \H6003, \H6100, \HF015, \HF018, \HF118, \HF007, \HF107 }

LoadTimer == phase = "created" /\ \E rom \in Roms(TimerWords) : Load(rom)

NextTimer == LoadTimer \/ Tick

SpecTimer == Init /\ [][NextTimer]_vars

IsFXKK(w, kk) == TopNibble(w) = 15 /\ FieldKK(w) = kk

\* C18: right after a tick executing FX15 the delay timer is reg[X] - 1, or
\* 0 when reg[X] is 0, and likewise the sound timer after FX18: the
\* decrement that ends the tick applies to the value just set.  A tick
\* executing FX07 leaves in reg[X] the delay timer as it was before the
\* tick, not the decremented value the timer has afterwards.
C18_TimerOrdering ==
    [][TickOk =>
         LET w == FetchedWord
             x == FieldX(w)
         IN  /\ IsFXKK(w, \H15) =>
                    d_tim' = (IF reg[x] = 0 THEN 0 ELSE reg[x] - 1)
             /\ IsFXKK(w, \H18) =>
                    s_tim' = (IF reg[x] = 0 THEN 0 ELSE reg[x] - 1)
             /\ IsFXKK(w, \H07) =>
                    /\ reg' = [reg EXCEPT ![x] = d_tim]
                    /\ d_tim' = (IF d_tim = 0 THEN 0 ELSE d_tim - 1)]_vars

\* 6003, F015, F007: the timer was set to 3, stood at 2 when FX07 read it
\* and is 1 after that tick
C18_Witness ==
    /\ instr = \HF007
    /\ result.kind = "Ok"
    /\ Fetch(mem, RomStart) = \H6003
    /\ Fetch(mem, RomStart + 2) = \HF015
    /\ reg[0] = 2
    /\ d_tim = 1

(* SpecStore: register store and load, at I = 0, inside the program, in    *)
(* free memory and at the last byte of memory.                             *)

StoreWords ==
    { \H6005, \H6107, \HA300, \HA201, \HAFFF, \HF055, \HF155, \HF065,
      \HF165 }

LoadStore == phase = "created" /\ \E rom \in Roms(StoreWords) : Load(rom)

NextStore == LoadStore \/ Tick

SpecStore == Init /\ [][NextStore]_vars

\* C19: a successful FX55 leaves reg[x] at memory I + x for x = 0..X, all
\* other memory and every register as they were, and I increased by 1; a
\* successful FX65 leaves memory I + x in reg[x] for x = 0..X, the registers
\* above X and all memory as they were, and I increased by 1 (I being the
\* value before the instruction, whatever X is).  From any state in which
\* FX55 succeeds, FX65 run after it with I set back to the same address
\* gives registers 0..X their stored values again, whatever they held in
\* between.
C19_StoreAndLoad ==
    /\ [][TickOk =>
            LET w == FetchedWord
                x == FieldX(w)
            IN  /\ IsFXKK(w, \H55) =>
                       /\ \A a \in DOMAIN mem \cup DOMAIN mem' \cup i..(i + x) :
                              MemRead(mem', a) =
                                 (IF a \in i..(i + x) THEN reg[a - i]
                                  ELSE MemRead(mem, a))
                       /\ reg' = reg
                       /\ i' = i + 1
                /\ IsFXKK(w, \H65) =>
                       /\ \A r \in 0..15 :
                              reg'[r] = (IF r <= x THEN MemRead(mem, i + r)
                                         ELSE reg[r])
                       /\ mem' = mem
                       /\ i' = i + 1]_vars
    /\ [](phase = "running" =>
            \A x \in {0, 1, 15} : \A junk \in {255} :
               LET stored == OpFX55(Machine, \HF055 + 256 * x)
               IN  stored.kind = "Ok" =>
                      LET loaded ==
                             OpFX65([stored.s EXCEPT
                                        !.i = i,
                                        !.reg = [r \in 0..15 |-> junk]],
                                    \HF065 + 256 * x)
                      IN  /\ loaded.kind = "Ok"
                          /\ \A r \in 0..x : loaded.s.reg[r] = reg[r])

\* 6107, A300, F155: V0 = 0 and V1 = 7 are at 0x300 and 0x301, I is 0x301
C19_Witness ==
    /\ instr = \HF155
    /\ result.kind = "Ok"
    /\ reg[1] = 7
    /\ MemRead(mem, 768) = 0
    /\ MemRead(mem, 769) = 7
    /\ i = 769

----------------------------------------------------------------------------
(* The driver: main's frame loop around one ChipState.                     *)

\* one pass of the loop with the poll reporting (down, up), clearing the
\* released keys before the tick instead of after it
Frame_ClearsBeforeTick(down, up) ==
    /\ phase = "running"
    /\ \E t \in {TickOf([Machine EXCEPT !.keys = (keys \cup down) \ up])} :
           /\ Len(t.r.s.stack) <= MaxStack
           /\ mem' = t.r.s.mem
           /\ reg' = t.r.s.reg
           /\ i' = t.r.s.i
           /\ pc' = t.r.s.pc
           /\ stack' = t.r.s.stack
           /\ fbuf' = t.r.s.fbuf
           /\ keys' = t.r.s.keys
           /\ d_tim' = t.r.s.d_tim
           /\ s_tim' = t.r.s.s_tim
           /\ rng_seed' = t.r.s.rng_seed
           /\ instr' = t.w
           /\ result' = [kind |-> t.r.kind, op |-> t.r.op]
           /\ phase' = CASE t.r.kind = "Panic" -> "crashed"
                          [] t.r.kind = "Ok" -> phase
                          [] OTHER -> "ended"
    /\ UNCHANGED overflow_checks

\* one pass of the loop with the poll reporting (down, up):
\* core.keys |= down; core.tick(); on Err break, else core.keys &= !up
Frame(down, up) ==
    /\ phase = "running"
    /\ \E t \in {TickOf([Machine EXCEPT !.keys = keys \cup down])} :
           /\ Len(t.r.s.stack) <= MaxStack
           /\ mem' = t.r.s.mem
           /\ reg' = t.r.s.reg
           /\ i' = t.r.s.i
           /\ pc' = t.r.s.pc
           /\ stack' = t.r.s.stack
           /\ fbuf' = t.r.s.fbuf
           /\ keys' = IF t.r.kind = "Ok" THEN t.r.s.keys \ up ELSE t.r.s.keys
           /\ d_tim' = t.r.s.d_tim
           /\ s_tim' = t.r.s.s_tim
           /\ rng_seed' = t.r.s.rng_seed
           /\ instr' = t.w
           /\ result' = [kind |-> t.r.kind, op |-> t.r.op]
           /\ phase' = CASE t.r.kind = "Panic" -> "crashed"
                          [] t.r.kind = "Ok" -> phase
                          [] OTHER -> "ended"
    /\ UNCHANGED overflow_checks

\* the poll met a Quit or Escape event: input returns None, the loop ends
Quit ==
    /\ phase = "running"
    /\ phase' = "ended"
    /\ UNCHANGED <<machine, overflow_checks, instr, result>>

\* what a poll can report: any keys down, any keys up
Polls == SUBSET (0..MaxKey)

FrameAny == \E down \in Polls, up \in Polls : Frame(down, up)

FrameWords == { \HF10A, \HE19E, \H00EE }

LoadFrame == phase = "created" /\ \E rom \in Roms(FrameWords) : Load(rom)

NextFrame == LoadFrame \/ FrameAny \/ Quit

SpecFrame == Init /\ [][NextFrame]_vars

\* C20: in a frame whose poll reports (down, up), tick runs on the key mask
\* with the down keys merged in: an FX0A completes with the lowest key of
\* that mask and EX9E skips on it, even for a key that is also in up; when
\* tick returns Ok the up keys are cleared afterwards, so such a key is
\* not in the mask the next frame starts with; when tick returns an error
\* the loop ends, and after the loop has ended nothing is called any more.
\* (Frame(down, up) is only evaluated for the polls that fit the step's key
\* masks; it implies the condition in front of it.)
C20_FrameOrder ==
    /\ [][\A down \in Polls : \A up \in Polls :
             (keys' \in {keys \cup down, (keys \cup down) \ up}
                 /\ Frame(down, up)) =>
                LET seen == keys \cup down
                    w == FetchedWord
                    x == FieldX(w)
                IN  /\ IsFX0A(w) =>
                           IF seen = {} THEN pc' = pc /\ reg' = reg
                           ELSE pc' = pc + 2 /\ reg'[x] = LowestKey(seen)
                    /\ (TopNibble(w) = 14 /\ FieldKK(w) = \H9E /\ reg[x] < 16) =>
                           pc' = pc + (IF reg[x] \in seen THEN 4 ELSE 2)
                    /\ result'.kind = "Ok" =>
                           keys' = seen \ up /\ phase' = "running"
                    /\ result'.kind \in {"UndefinedOp", "PoppedEmptyStack"} =>
                           phase' = "ended"]_vars
    /\ [][phase # "ended"]_vars

\* the program starts with F10A; key 1 went down and up in the poll of one
\* frame: the FX0A of that frame took it, and the mask is empty again
C20_Witness ==
    /\ phase = "running"
    /\ Fetch(mem, RomStart) = \HF10A
    /\ instr = \HF10A
    /\ pc = RomStart + 2
    /\ reg[1] = 1
    /\ keys = {}

====
